---- MODULE Spec2Model ----
(***************************************************************************)
(* Reliability core of aws-ssm-data-fetcher: the retry wrapper             *)
(* (with_retry), the circuit breaker (CircuitBreaker) and their            *)
(* composition (with_retry_and_circuit_breaker), modelled from             *)
(* aws_ssm_fetcher/core/error_handling.py.                                 *)
(*                                                                         *)
(* One behaviour is one decorated function: a configuration is fixed in    *)
(* Init (the decorator's arguments), then the decorated function is called *)
(* up to MaxRuns times in sequence.  A call walks through the positions    *)
(*   "call"   top of the retry loop, about to call the wrapped function    *)
(*   "invoke" inside CircuitBreaker.call, about to run the raw operation   *)
(*   "handle" the wrapped function has returned or raised into with_retry  *)
(*   "done"   the retry wrapper has returned or raised to its caller       *)
(* Time is an integer clock (seconds) that can advance at any position.    *)
(***************************************************************************)
EXTENDS Integers, Sequences, FiniteSets, TLC

\* ---------------------------------------------------------------- bounds
MaxRuns == 2
MaxTime == 3
MaxAttemptsBound == 3
MaxThresholdBound == 3
MaxHalfOpenBound == 2
MaxAttemptIndex == 3
MaxCacheOps == 3
MaxExecutions == 3
MaxTwinCalls == 4
MaxThreadCalls == 3
MaxOperations == 3

\* ------------------------------------------------------- exception model
\* Exception classes an operation can raise, with their base classes
\* (isinstance(e, C) holds iff C is in Ancestors[class of e]).
OpErrors ==
  {"RequestException", "RetryableError", "NonRetryableError",
   "ValueError", "KeyboardInterrupt", "AmbiguousError"}

Ancestors(e) ==
  CASE e = "RequestException"        -> {"RequestException", "Exception", "BaseException"}
    [] e = "RetryableError"          -> {"RetryableError", "Exception", "BaseException"}
    [] e = "NonRetryableError"       -> {"NonRetryableError", "Exception", "BaseException"}
    [] e = "ValueError"              -> {"ValueError", "Exception", "BaseException"}
    [] e = "CircuitBreakerOpenError" -> {"CircuitBreakerOpenError", "Exception", "BaseException"}
    [] e = "RuntimeError"            -> {"RuntimeError", "Exception", "BaseException"}
    [] e = "KeyboardInterrupt"       -> {"KeyboardInterrupt", "BaseException"}
    [] e = "AmbiguousError"          -> {"AmbiguousError", "RetryableError",
                                         "NonRetryableError", "Exception", "BaseException"}
    [] OTHER                         -> {}

\* `except classes as e` / isinstance(e, classes)
Matches(e, classes) == Ancestors(e) \cap classes # {}

\* RetryConfig.__init__ defaults
retryable_exceptions ==
  {"RequestException", "Timeout", "ConnectionError", "ClientError",
   "RetryableError", "TimeoutError"}

non_retryable_exceptions ==
  {"NonRetryableError", "KeyboardInterrupt", "SystemExit", "MemoryError"}

\* ------------------------------------------------------ enums and values
CLOSED == "closed"
OPEN == "open"
HALF_OPEN == "half_open"

FIXED_INTERVAL == "fixed_interval"
LINEAR_BACKOFF == "linear_backoff"
EXPONENTIAL_BACKOFF == "exponential_backoff"
EXPONENTIAL_BACKOFF_WITH_JITTER == "exponential_backoff_with_jitter"
RetryStrategy ==
  {FIXED_INTERVAL, LINEAR_BACKOFF, EXPONENTIAL_BACKOFF, EXPONENTIAL_BACKOFF_WITH_JITTER}

None == "none"
NoTime == -1
OK == "ok"

Min(a, b) == IF a <= b THEN a ELSE b

VARIABLES
  cfg,      \* RetryConfig + CircuitBreakerConfig + which decorator is used
  cb,       \* the CircuitBreaker instance of the decorated function
  now,      \* datetime.now(), in seconds
  pc,       \* position of the current call of the decorated function
  attempt,  \* loop variable of with_retry.wrapper
  pending,  \* what the wrapped function just returned (OK) or raised
  outcome,  \* what with_retry.wrapper returned or raised to the caller
  runs,     \* calls of the decorated function started so far
  opLog,    \* history: outcomes of the raw operation in the current call
  sleeps,   \* history: time.sleep calls in the current call
  startCb,  \* history: the breaker as it was when the current call began
  consec,   \* history: failures seen by the breaker since its last success
  hoSucc,   \* history: successes since the breaker last became HALF_OPEN
  rejects   \* history: calls the breaker rejected while OPEN

\* the delay computation on its own: its arguments and its result
VARIABLES
  dIn,      \* arguments of one _calculate_delay call
  dOut      \* its result, with the jitter term that was drawn

\* one run of ProcessingPipeline.process
VARIABLES
  pin,        \* the payload kind and the merged configuration of the run
  ppc,        \* position of process()
  ctx,        \* the PipelineExecutionContext of the run
  pidx,       \* index, in the stage plan, of the stage being executed
  perr,       \* the exception in flight, outermost layer first
  pout,       \* what process() delivered to its caller
  pStarted,   \* history: stages in the order start_stage was called
  pFinalized, \* history: number of finalize calls
  pLate       \* history: stage events that happened after end_time was set

\* one CacheManager over a cache directory and an S3 bucket
VARIABLES
  ccfg,          \* cache_enabled, whether s3_client is set, cache_hours
  memory_cache,  \* self._memory_cache
  local_files,   \* the *.pkl files of cache_dir, by path
  s3_objects,    \* the cache/<key>.json objects of the bucket, by key
  cres,          \* the last cache operation and what it returned
  cops,          \* number of cache operations made
  sets,          \* history: per key, the values set on this instance since
                 \* the key was last cleared
  setTime,       \* history: per key, the time of the latest set
  cleared        \* history: the keys cleared and not set since

\* one PipelineOrchestrator
VARIABLES
  orch,      \* active_pipelines, completed_pipelines, failed_pipelines
  opc,       \* position of execute_pipeline
  oid,       \* pipeline_id of the pipeline whose process() is running
  oSucc,     \* history: execute_pipeline calls that returned
  oRaised,   \* history: execute_pipeline calls that raised
  oStatus    \* the last get_pipeline_status() and the history at that time

\* two CircuitBreakers built from one configuration
VARIABLES
  twin       \* the configuration, the two breakers, the calls made on them

\* one CircuitBreaker called from two threads
VARIABLES
  tcfg,      \* its configuration
  tcb,       \* the fields of the breaker, shared by the threads
  th,        \* per thread: position in call(), value read for a pending +=
  tlog       \* history: calls started, calls rejected, failures recorded
             \* since the last recorded success

\* one processor (a BaseProcessor subclass) and the cache of its context
VARIABLES
  processing_stats,  \* self._processing_stats
  cache_manager,     \* self.context.cache_manager: whether there is one, and
                     \* the inputs whose result it holds
  pwc                \* the last process_with_cache call and how it ended

retryVars == <<cfg, cb, now, pc, attempt, pending, outcome, runs, opLog, sleeps,
               startCb, consec, hoSucc, rejects>>
delayVars == <<dIn, dOut>>

pipeVars == <<pin, ppc, ctx, pidx, perr, pout, pStarted, pFinalized, pLate>>

cacheVars == <<ccfg, memory_cache, local_files, s3_objects, cres, cops, sets, setTime,
               cleared>>

orchVars == <<orch, opc, oid, oSucc, oRaised, oStatus>>

twinVars == <<twin>>

threadVars == <<tcfg, tcb, th, tlog>>

procVars == <<processing_stats, cache_manager, pwc>>

vars == <<retryVars, delayVars, pipeVars, cacheVars, orchVars, twinVars, threadVars, procVars>>

\* what the retry wrapper and the breaker never touch
nonRetryVars == <<delayVars, pipeVars, cacheVars, orchVars, twinVars, threadVars, procVars>>
\* what _calculate_delay never touches
nonDelayVars == <<retryVars, pipeVars, cacheVars, orchVars, twinVars, threadVars, procVars>>
\* what the pipeline never touches
nonPipeVars == <<retryVars, delayVars, cacheVars, orchVars, twinVars, threadVars, procVars>>
\* what the cache never touches
nonCacheVars == <<retryVars, delayVars, pipeVars, orchVars, twinVars, threadVars, procVars>>
\* what the orchestrator never touches
nonOrchVars == <<retryVars, delayVars, pipeVars, cacheVars, twinVars, threadVars, procVars>>
\* what the pair of breakers never touches
nonTwinVars == <<retryVars, delayVars, pipeVars, cacheVars, orchVars, threadVars, procVars>>
\* what the threads on a breaker never touch
nonThreadVars == <<retryVars, delayVars, pipeVars, cacheVars, orchVars, twinVars, procVars>>
\* what the processor never touches
nonProcVars == <<retryVars, delayVars, pipeVars, cacheVars, orchVars, twinVars, threadVars>>

\* ------------------------------------------------------- configuration
Configs ==
  [ composed            : BOOLEAN,
    max_attempts        : 1..MaxAttemptsBound,
    base_delay          : {1},
    max_delay           : {2},
    strategy            : RetryStrategy,
    jitter_factor       : {100},
    failure_threshold   : 1..MaxThresholdBound,
    recovery_timeout    : {2},
    expected_exception  : {"Exception", "RequestException"},
    half_open_max_calls : 1..MaxHalfOpenBound ]

\* CircuitBreaker.__init__
NewBreaker ==
  [ state             |-> CLOSED,
    failure_count     |-> 0,
    last_failure_time |-> NoTime,
    half_open_calls   |-> 0,
    total_calls       |-> 0,
    successful_calls  |-> 0,
    failed_calls      |-> 0,
    circuit_opens     |-> 0 ]

\* --------------------------------------------------- CircuitBreaker code
\* variant: the timeout compared with > instead of >=
ShouldAttemptReset_Strict(b, t, recovery_timeout) ==
  IF b.last_failure_time = NoTime
    THEN TRUE
    ELSE t - b.last_failure_time > recovery_timeout

\* CircuitBreaker._should_attempt_reset
ShouldAttemptReset(b, t, recovery_timeout) ==
  IF b.last_failure_time = NoTime
    THEN TRUE
    ELSE t - b.last_failure_time >= recovery_timeout

\* variant: a success does not reset failure_count
OnSuccess_NoReset(b, half_open_max_calls) ==
  LET b1 == [b EXCEPT !.successful_calls = @ + 1] IN
  IF b1.state = HALF_OPEN
    THEN LET b2 == [b1 EXCEPT !.half_open_calls = @ + 1] IN
         IF b2.half_open_calls >= half_open_max_calls
           THEN [b2 EXCEPT !.state = CLOSED, !.half_open_calls = 0]
           ELSE b2
    ELSE b1

\* variant: half_open_calls compared with > instead of >=
OnSuccess_OneMore(b, half_open_max_calls) ==
  LET b1 == [b EXCEPT !.successful_calls = @ + 1, !.failure_count = 0] IN
  IF b1.state = HALF_OPEN
    THEN LET b2 == [b1 EXCEPT !.half_open_calls = @ + 1] IN
         IF b2.half_open_calls > half_open_max_calls
           THEN [b2 EXCEPT !.state = CLOSED, !.half_open_calls = 0]
           ELSE b2
    ELSE b1

\* CircuitBreaker._on_success
OnSuccess(b, half_open_max_calls) ==
  LET b1 == [b EXCEPT !.successful_calls = @ + 1, !.failure_count = 0] IN
  IF b1.state = HALF_OPEN
    THEN LET b2 == [b1 EXCEPT !.half_open_calls = @ + 1] IN
         IF b2.half_open_calls >= half_open_max_calls
           THEN [b2 EXCEPT !.state = CLOSED, !.half_open_calls = 0]
           ELSE b2
    ELSE b1

\* variant: no HALF_OPEN branch, only the threshold opens the breaker
OnFailure_ThresholdOnly(b, t, failure_threshold) ==
  LET b1 == [b EXCEPT !.failed_calls = @ + 1,
                      !.failure_count = @ + 1,
                      !.last_failure_time = t] IN
  IF b1.failure_count >= failure_threshold
    THEN [b1 EXCEPT !.state = OPEN, !.circuit_opens = @ + 1]
    ELSE b1

\* variant: the breaker opens one failure early
OnFailure_EarlyOpen(b, t, failure_threshold) ==
  LET b1 == [b EXCEPT !.failed_calls = @ + 1,
                      !.failure_count = @ + 1,
                      !.last_failure_time = t] IN
  IF b1.state = HALF_OPEN
    THEN [b1 EXCEPT !.state = OPEN, !.circuit_opens = @ + 1]
    ELSE IF b1.failure_count >= failure_threshold - 1
      THEN [b1 EXCEPT !.state = OPEN, !.circuit_opens = @ + 1]
      ELSE b1

\* variant: a failed trial call reopens the breaker without counting it
OnFailure_UncountedReopen(b, t, failure_threshold) ==
  LET b1 == [b EXCEPT !.failed_calls = @ + 1,
                      !.failure_count = @ + 1,
                      !.last_failure_time = t] IN
  IF b1.state = HALF_OPEN
    THEN [b1 EXCEPT !.state = OPEN]
    ELSE IF b1.failure_count >= failure_threshold
      THEN [b1 EXCEPT !.state = OPEN, !.circuit_opens = @ + 1]
      ELSE b1

\* variant: the breaker opens on the cumulative failed_calls
OnFailure_CumulativeGate(b, t, failure_threshold) ==
  LET b1 == [b EXCEPT !.failed_calls = @ + 1,
                      !.failure_count = @ + 1,
                      !.last_failure_time = t] IN
  IF b1.state = HALF_OPEN
    THEN [b1 EXCEPT !.state = OPEN, !.circuit_opens = @ + 1]
    ELSE IF b1.failed_calls >= failure_threshold
      THEN [b1 EXCEPT !.state = OPEN, !.circuit_opens = @ + 1]
      ELSE b1

\* CircuitBreaker._on_failure
OnFailure(b, t, failure_threshold) ==
  LET b1 == [b EXCEPT !.failed_calls = @ + 1,
                      !.failure_count = @ + 1,
                      !.last_failure_time = t] IN
  IF b1.state = HALF_OPEN
    THEN [b1 EXCEPT !.state = OPEN, !.circuit_opens = @ + 1]
    ELSE IF b1.failure_count >= failure_threshold
      THEN [b1 EXCEPT !.state = OPEN, !.circuit_opens = @ + 1]
      ELSE b1

\* CircuitBreaker.call, after the operation ran: try / except expected_exception
AfterInvoke(b, r, t, c) ==
  IF r = OK
    THEN OnSuccess(b, c.half_open_max_calls)
    ELSE IF Matches(r, {c.expected_exception})
      THEN OnFailure(b, t, c.failure_threshold)
      ELSE b

\* CircuitBreaker.call, before the operation runs: the call is counted, an
\* OPEN breaker either moves to HALF_OPEN or rejects the call
Admit(b, t, c) ==
  LET b1 == [b EXCEPT !.total_calls = @ + 1] IN
  IF b1.state = OPEN
    THEN IF ShouldAttemptReset(b1, t, c.recovery_timeout)
      THEN [ passed |-> TRUE,
             cb |-> [b1 EXCEPT !.state = HALF_OPEN, !.half_open_calls = 0] ]
      ELSE [ passed |-> FALSE, cb |-> b1 ]
    ELSE [ passed |-> TRUE, cb |-> b1 ]

\* --------------------------------------------------------- with_retry code
\* 2**attempt
RECURSIVE Pow2(_)
Pow2(n) == IF n <= 0 THEN 1 ELSE 2 * Pow2(n - 1)

\* variant: the jitter is drawn on both sides of the delay
JitterRange_Symmetric(delay, jitter_factor) ==
  (0 - ((delay * jitter_factor) \div 100))..((delay * jitter_factor) \div 100)

\* delay * jitter_factor * random.random(), in whole time units;
\* jitter_factor is given in percent
JitterRange(delay, jitter_factor) == 0..((delay * jitter_factor) \div 100)

\* variant: the clamp is applied before the jitter is added
CalculateDelay_ClampFirst(a, base_delay, max_delay, strategy, jitter) ==
  LET delay ==
        CASE strategy = FIXED_INTERVAL -> base_delay
          [] strategy = LINEAR_BACKOFF -> base_delay * (a + 1)
          [] strategy = EXPONENTIAL_BACKOFF -> base_delay * Pow2(a)
          [] strategy = EXPONENTIAL_BACKOFF_WITH_JITTER -> base_delay * Pow2(a)
          [] OTHER -> base_delay
  IN IF strategy = EXPONENTIAL_BACKOFF_WITH_JITTER
       THEN Min(delay, max_delay) + jitter
       ELSE Min(delay, max_delay)

\* _calculate_delay; jitter is the value drawn for the jitter term
CalculateDelay(a, base_delay, max_delay, strategy, jitter) ==
  LET delay ==
        CASE strategy = FIXED_INTERVAL -> base_delay
          [] strategy = LINEAR_BACKOFF -> base_delay * (a + 1)
          [] strategy = EXPONENTIAL_BACKOFF -> base_delay * Pow2(a)
          [] strategy = EXPONENTIAL_BACKOFF_WITH_JITTER -> base_delay * Pow2(a) + jitter
          [] OTHER -> base_delay
  IN Min(delay, max_delay)

\* variant: an exception no clause names is retried
Classify_UnknownRetried(e) ==
  IF Matches(e, non_retryable_exceptions) THEN "non_retryable"
  ELSE IF Matches(e, retryable_exceptions) THEN "retryable"
  ELSE IF Matches(e, {"Exception"}) THEN "retryable"
  ELSE "uncaught"

\* variant: the retryable clause comes before the non-retryable clause
Classify_RetryableFirst(e) ==
  IF Matches(e, retryable_exceptions) THEN "retryable"
  ELSE IF Matches(e, non_retryable_exceptions) THEN "non_retryable"
  ELSE IF Matches(e, {"Exception"}) THEN "unknown"
  ELSE "uncaught"

\* the order of the except clauses of with_retry.wrapper
Classify(e) ==
  IF Matches(e, non_retryable_exceptions) THEN "non_retryable"
  ELSE IF Matches(e, retryable_exceptions) THEN "retryable"
  ELSE IF Matches(e, {"Exception"}) THEN "unknown"
  ELSE "uncaught"

\* variant: every exception reaching the `except Exception` clause is retried
UnknownShouldRetry_Always(e) == TRUE

\* `any(isinstance(e, exc_type) for exc_type in retryable_exceptions)`
\* inside the `except Exception` clause
UnknownShouldRetry(e) == Matches(e, retryable_exceptions)

\* variant: the wrapper never sees its last attempt
LastAttempt_Never(a, max_attempts) == FALSE

\* variant: the wrapper gives up one attempt early
LastAttempt_OneEarly(a, max_attempts) == a >= max_attempts - 2

\* `if attempt == retry_config.max_attempts - 1`
LastAttempt(a, max_attempts) == a = max_attempts - 1

\* `for attempt in range(retry_config.max_attempts)`; when the loop runs out
\* the wrapper raises RuntimeError("Retry logic error")
LoopContinues(a, max_attempts) == a < max_attempts

\* `raise e`
Raise(e) == [status |-> "raised", error |-> e, wraps |-> None]

\* variant: the last error is wrapped in a retry-exhausted error
RaiseExhausted_Wrapped(e) ==
  [status |-> "raised", error |-> "RetryExhaustedError", wraps |-> e]

\* `raise e` once all attempts have failed
RaiseExhausted(e) == Raise(e)

\* `return result`
Return == [status |-> "returned", error |-> None, wraps |-> None]

NoOutcome == [status |-> None, error |-> None, wraps |-> None]

\* ------------------------------------------------ the pipeline: data
DISCOVERY == "discovery"
MAPPING == "mapping"
TRANSFORMATION == "transformation"
ANALYSIS == "analysis"
VALIDATION == "validation"
OUTPUT == "output"

\* the stages in the order _execute_pipeline_stages runs them
PipelineStage == <<DISCOVERY, MAPPING, TRANSFORMATION, ANALYSIS, VALIDATION, OUTPUT>>

\* kinds of the input_data argument of process()
PayloadKinds == {"none", "dict", "other"}

\* error_tolerance in percent, timeout_seconds in seconds
ErrorTolerances == {0, 10}
Timeouts == {0, 3600}

\* the merged configuration {**pipeline_config, **input_data, **kwargs}
PipelineInputs ==
  [ payload             : PayloadKinds,
    enable_statistics   : BOOLEAN,
    enable_validation   : BOOLEAN,
    parallel_processing : BOOLEAN,
    error_tolerance     : ErrorTolerances,
    timeout_seconds     : Timeouts ]

\* ProcessingPipeline.pipeline_config, the defaults
pipeline_config ==
  [ payload |-> "none", enable_statistics |-> TRUE, enable_validation |-> TRUE,
    parallel_processing |-> TRUE, error_tolerance |-> 10, timeout_seconds |-> 3600 ]

\* exceptions a stage's processors raise, with their str()
StageErrors ==
  { [ class |-> "ValueError", message |-> <<"bad value">> ],
    [ class |-> "ProcessingError", message |-> <<"Test error">> ] }

\* the classes a processor exception is an instance of
ProcessingAncestors(class) ==
  CASE class = "ProcessingValidationError" ->
         {"ProcessingValidationError", "ProcessingError", "Exception"}
    [] class = "PipelineError" -> {"PipelineError", "ProcessingError", "Exception"}
    [] class = "ProcessingError" -> {"ProcessingError", "Exception"}
    [] OTHER -> {class, "Exception"}

\* an exception is the sequence of its layers, the raised one first and its
\* __cause__ chain after it
NoError == <<>>

\* raise class(f"{text}: {cause}") from cause
RaiseFrom(class, text, cause) ==
  <<[ class |-> class, message |-> text \o cause[1].message ]>> \o cause

\* raise ProcessingValidationError(...)
ValidationFailure ==
  <<[ class |-> "ProcessingValidationError",
      message |-> <<"Pipeline input must be a dictionary of configuration parameters">> ]>>

NoContext ==
  [ created |-> FALSE, pipeline_id |-> NoTime, start_time |-> NoTime,
    end_time |-> NoTime, current_stage |-> None, completed_stages |-> <<>>,
    failed_stages |-> <<>>, stage_results |-> {}, errors |-> <<>> ]

\* PipelineExecutionContext.__init__ at time t
PipelineExecutionContext(t) ==
  [ created |-> TRUE, pipeline_id |-> t, start_time |-> t,
    end_time |-> NoTime, current_stage |-> None, completed_stages |-> <<>>,
    failed_stages |-> <<>>, stage_results |-> {}, errors |-> <<>> ]

\* the default result=None of complete_stage
NoStageResult == [ of |-> None, calls |-> 0 ]

start_stage(c, stage) == [ c EXCEPT !.current_stage = stage ]

complete_stage(c, stage, result) ==
  [ c EXCEPT !.completed_stages = Append(@, stage),
             !.stage_results = IF result = NoStageResult THEN @
                               ELSE { r \in @ : r.stage # stage }
                                    \cup { [ stage |-> stage, result |-> result ] },
             !.current_stage = None ]

\* variant: the failed stage stays the current stage
fail_stage_KeepsCurrent(c, stage, error, t) ==
  [ c EXCEPT !.failed_stages = Append(@, stage),
             !.errors = Append(@, [ stage |-> stage, error |-> error[1].message,
                                    timestamp |-> t ]) ]

fail_stage(c, stage, error, t) ==
  [ c EXCEPT !.failed_stages = Append(@, stage),
             !.errors = Append(@, [ stage |-> stage, error |-> error[1].message,
                                    timestamp |-> t ]),
             !.current_stage = None ]

finalize(c, t) == [ c EXCEPT !.end_time = t ]

\* variant: the except clause of process() does not finalize
ExceptFinalize_Skipped(c, t) == c

\* the except clause of process(): execution_context.finalize()
ExceptFinalize(c, t) == finalize(c, t)

\* variant: every input passes
validate_input_AcceptsAll(payload) == TRUE

\* validate_input: TRUE when it returns, FALSE when it raises
validate_input(payload) == payload = "none" \/ payload = "dict"

\* variant: the enable flags are not consulted
StagePlan_IgnoresFlags(config) == PipelineStage

\* the stages _execute_pipeline_stages calls under a configuration
StagePlan(config) ==
  SelectSeq(PipelineStage,
            LAMBDA s : /\ (s = ANALYSIS => config.enable_statistics)
                       /\ (s = VALIDATION => config.enable_validation))

\* what a stage hands to complete_stage; with parallel_processing the
\* discovery processors are called twice
StageResult(stage, config) ==
  [ of |-> stage,
    calls |-> IF stage = DISCOVERY /\ config.parallel_processing THEN 2 ELSE 1 ]

\* variant: a failed stage is tolerated and the next stage runs
Advance_Tolerant(i, failed, plan) ==
  IF i < Len(plan) THEN [ ppc |-> "start", pidx |-> i + 1 ]
  ELSE IF failed THEN [ ppc |-> "abort", pidx |-> i ]
  ELSE [ ppc |-> "stages_done", pidx |-> i ]

\* where _execute_pipeline_stages goes after stage i of the plan: an
\* exception leaves the sequence, a return goes on to the next call
Advance(i, failed, plan) ==
  IF failed THEN [ ppc |-> "abort", pidx |-> i ]
  ELSE IF i < Len(plan) THEN [ ppc |-> "start", pidx |-> i + 1 ]
  ELSE [ ppc |-> "stages_done", pidx |-> i ]

NoResult == [ status |-> "none", error |-> NoError, success |-> FALSE, stage_results |-> {} ]

\* the normal return of process()
FinalResults(c) ==
  [ status |-> "returned", error |-> NoError,
    success |-> Len(c.failed_stages) = 0, stage_results |-> c.stage_results ]

\* variant: the failure is reported in a returned bundle
ProcessFailure_Returns(c, e) ==
  [ status |-> "returned", error |-> NoError,
    success |-> FALSE, stage_results |-> c.stage_results ]

\* the except clause of process(): raise PipelineError(...) from e
ProcessFailure(c, e) ==
  [ status |-> "raised",
    error |-> RaiseFrom("PipelineError", <<"Pipeline execution failed">>, e),
    success |-> FALSE, stage_results |-> {} ]

\* no pipeline run under way
IdlePipeline ==
  /\ pin = pipeline_config
  /\ ppc = "idle"
  /\ ctx = NoContext
  /\ pidx = 0
  /\ perr = NoError
  /\ pout = NoResult
  /\ pStarted = <<>>
  /\ pFinalized = 0
  /\ pLate = 0

\* --------------------------------------------------- the cache: data
\* keys handed to get and set; they differ only in '/' and '_'
CacheKeys == {"a/b", "a_b"}

\* keys handed to clear: the empty string as well
ClearKeys == CacheKeys \cup {""}

\* _get_cache_path: key.replace('/', '_').replace(':', '_')
SafeKey(key) == IF key = "a/b" THEN "a_b" ELSE key

CachePaths == { SafeKey(k) : k \in CacheKeys }

\* values handed to set: a string and a tuple
CacheValues == {"text", "tuple"}

\* what get returns on a miss
Absent == "absent"

\* json.dumps(data, default=str)
JsonDumps(v) == IF v = "text" THEN "json_string" ELSE "json_array"

\* json.loads(body): an array comes back as a list
JsonLoads(body) == IF body = "json_string" THEN "text" ELSE "list"

\* cache_hours, in clock units
CacheTTLs == {1, 2}

CacheConfigs ==
  [ cache_enabled : BOOLEAN, s3_client : BOOLEAN, cache_hours : CacheTTLs ]

NoFile == [ state |-> "missing", data |-> Absent, mtime |-> NoTime ]
NoObject == [ present |-> FALSE, body |-> Absent, last_modified |-> NoTime ]
NoOp == [ op |-> "none", key |-> None, value |-> Absent, probed |-> <<>>,
          s3_raised |-> FALSE ]

\* what an operation delivers when an exception leaves it
Raised == "raised"

\* outcomes of open(cache_path, 'wb') followed by pickle.dump: the file is
\* written, or pickle.dump raises and leaves the truncated file behind
WriteOutcomes == {"ok", "dump_failed"}

\* _is_cache_valid at time t
IsCacheValid(file, t, cache_hours) ==
  file.state # "missing" /\ t < file.mtime + cache_hours

\* _get_from_local: the value read, and the files afterwards (a file that
\* does not unpickle is unlinked)
GetFromLocal(files, key, t, cache_hours) ==
  LET path == SafeKey(key)
      file == files[path]
  IN IF ~IsCacheValid(file, t, cache_hours)
       THEN [ data |-> Absent, files |-> files ]
     ELSE IF file.state = "ok"
       THEN [ data |-> file.data, files |-> files ]
     ELSE [ data |-> Absent, files |-> [ files EXCEPT ![path] = NoFile ] ]

\* _set_to_local: open truncates the file before pickle.dump writes it
SetToLocal(files, key, data, t, written) ==
  LET path == SafeKey(key)
  IN IF written = "ok"
       THEN [ files EXCEPT ![path] = [ state |-> "ok", data |-> data, mtime |-> t ] ]
       ELSE [ files EXCEPT ![path] = [ state |-> "corrupt", data |-> Absent, mtime |-> t ] ]

\* variant: no try/except around the request
GetFromS3_Unguarded(objects, key, t, cache_hours, ok) ==
  LET obj == objects[key]
  IN IF ~ok THEN Raised
     ELSE IF ~obj.present THEN Absent
     ELSE IF t - obj.last_modified > cache_hours THEN Absent
     ELSE JsonLoads(obj.body)

\* _get_from_s3 at time t; ok is FALSE when the request raises
GetFromS3(objects, key, t, cache_hours, ok) ==
  LET obj == objects[key]
  IN IF ~ok \/ ~obj.present THEN Absent
     ELSE IF t - obj.last_modified > cache_hours THEN Absent
     ELSE JsonLoads(obj.body)

\* _set_to_s3 at time t; ok is FALSE when the request raises
SetToS3(objects, key, data, t, ok) ==
  IF ok
    THEN [ objects EXCEPT ![key] = [ present |-> TRUE, body |-> JsonDumps(data),
                                     last_modified |-> t ] ]
    ELSE objects

\* variant: nothing is written to memory
MemoryPut_Dropped(memory, key, data) == memory

\* variant: an entry already in memory is kept
MemoryPut_KeepFirst(memory, key, data) ==
  IF memory[key] # Absent THEN memory ELSE [ memory EXCEPT ![key] = data ]

\* self._memory_cache[key] = data
MemoryPut(memory, key, data) == [ memory EXCEPT ![key] = data ]

EmptyMemory == [ k \in CacheKeys |-> Absent ]
NoSets == [ k \in CacheKeys |-> <<>> ]

\* a cache nobody uses
IdleCache ==
  /\ ccfg = [ cache_enabled |-> FALSE, s3_client |-> FALSE, cache_hours |-> 1 ]
  /\ memory_cache = EmptyMemory
  /\ local_files = [ p \in CachePaths |-> NoFile ]
  /\ s3_objects = [ k \in CacheKeys |-> NoObject ]
  /\ cres = NoOp
  /\ cops = MaxCacheOps
  /\ sets = NoSets
  /\ setTime = [ k \in CacheKeys |-> NoTime ]
  /\ cleared = {}

\* --------------------------------------------- the orchestrator: data
\* PipelineOrchestrator.__init__: three empty dicts, each kept here as the
\* set of its items
NewOrchestrator ==
  [ active_pipelines |-> {}, completed_pipelines |-> {}, failed_pipelines |-> {} ]

\* the bundle process() returns to execute_pipeline: the id of the run's
\* context, and the number of the execution that produced it
PipelineResults(id, n) ==
  [ pipeline_execution |-> [ pipeline_id |-> id ], execution |-> n ]

\* d[k] = v on a dict: an item with an equal key is replaced
DictStore(d, k, v) ==
  { item \in d : item.key # k } \cup { [ key |-> k, value |-> v ] }

\* self.completed_pipelines[pipeline_id] = results
TrackCompletion(o, results) ==
  [ o EXCEPT !.completed_pipelines =
               DictStore(@, results.pipeline_execution.pipeline_id, results) ]

get_pipeline_status(o) ==
  [ active_pipelines    |-> Cardinality(o.active_pipelines),
    completed_pipelines |-> Cardinality(o.completed_pipelines),
    failed_pipelines    |-> Cardinality(o.failed_pipelines),
    total_executions    |-> Cardinality(o.active_pipelines)
                            + Cardinality(o.completed_pipelines)
                            + Cardinality(o.failed_pipelines) ]

\* get_pipeline_status not called yet
NoStatus ==
  [ taken |-> FALSE, status |-> get_pipeline_status(NewOrchestrator),
    returned |-> 0, raised |-> 0 ]

\* an orchestrator nobody uses
IdleOrch ==
  /\ orch = NewOrchestrator
  /\ opc = "idle"
  /\ oid = NoTime
  /\ oSucc = 0
  /\ oRaised = 0
  /\ oStatus = NoStatus

\* ----------------------------------------------- two breakers: data
\* the breaker configurations of Configs, each once
BreakerConfigs ==
  { c \in Configs : c.composed /\ c.max_attempts = 1 /\ c.strategy = FIXED_INTERVAL }

\* what the protected function does in a call
CallOutcomes == {OK, "RequestException", "ValueError", "KeyboardInterrupt"}

\* CircuitBreaker.call as a whole, the function returning or raising r: what
\* the caller gets and the breaker afterwards
Call(b, r, t, c) ==
  LET g == Admit(b, t, c) IN
  IF g.passed
    THEN [ passed |-> TRUE, cb |-> AfterInvoke(g.cb, r, t, c) ]
    ELSE g

\* two breakers nobody uses
IdleTwin ==
  twin = [ cfg |-> CHOOSE c \in BreakerConfigs :
                     c.failure_threshold = 1 /\ c.half_open_max_calls = 1
                     /\ c.expected_exception = "Exception",
           a |-> NewBreaker, b |-> NewBreaker, calls |-> MaxTwinCalls ]

\* ------------------------------------------ threads on a breaker: data
Threads == {1, 2}

\* a thread outside call()
IdleThread == [ pc |-> "idle", reg |-> 0 ]

NoThreadLog == [ calls |-> 0, rejected |-> 0, streak |-> 0 ]

\* a breaker no thread uses
IdleThreads ==
  /\ tcfg = CHOOSE c \in BreakerConfigs :
              c.failure_threshold = 1 /\ c.half_open_max_calls = 1
              /\ c.expected_exception = "Exception"
  /\ tcb = NewBreaker
  /\ th = [ t \in Threads |-> IdleThread ]
  /\ tlog = [ NoThreadLog EXCEPT !.calls = MaxThreadCalls ]

\* ------------------------------------------------ the processor: data
\* inputs handed to process_with_cache; validate_input returns False on "bad"
ProcInputs == {"x", "y", "bad"}

ValidInput(input) == input # "bad"

\* BaseProcessor.__init__
NewStats ==
  [ total_operations |-> 0, successful_operations |-> 0, failed_operations |-> 0,
    cache_hits |-> 0, cache_misses |-> 0 ]

\* get_cached_result: no cache manager gives None and counts nothing; a
\* result found counts a hit; None, or an exception of the cache, counts a
\* miss. found says whether cache_manager.get delivered a result.
get_cached_result(stats, cm, found) ==
  IF ~cm.present THEN stats
  ELSE IF found THEN [ stats EXCEPT !.cache_hits = @ + 1 ]
  ELSE [ stats EXCEPT !.cache_misses = @ + 1 ]

\* cache_result: stored says whether cache_manager.set returned True
cache_result(cm, input, stored) ==
  IF cm.present /\ stored THEN [ cm EXCEPT !.cached = @ \cup {input} ] ELSE cm

\* get_processing_stats; a rate is kept as <<numerator, denominator>>
get_processing_stats(stats) ==
  LET total_ops == stats.total_operations
      den == IF total_ops >= 1 THEN total_ops ELSE 1 IN
  [ total_operations |-> total_ops,
    success_rate |-> <<stats.successful_operations, den>>,
    failure_rate |-> <<stats.failed_operations, den>> ]

\* process_with_cache not called yet
NoCall == [ input |-> None, ended |-> None ]

\* a processor nobody uses
IdleProc ==
  /\ processing_stats = [ NewStats EXCEPT !.total_operations = MaxOperations ]
  /\ cache_manager = [ present |-> FALSE, cached |-> {} ]
  /\ pwc = NoCall

\* ------------------------------------------------------------------ Init
\* no delay computation under way
NoDelay == [ done |-> FALSE, delay |-> 0, jitter |-> 0 ]

IdleDelay ==
  /\ dIn = [ attempt |-> 0, base_delay |-> 0, max_delay |-> 0,
             strategy |-> FIXED_INTERVAL, jitter_factor |-> 0 ]
  /\ dOut = NoDelay

Init ==
  /\ cfg \in Configs
  /\ cb = NewBreaker
  /\ now = 0
  /\ pc = "idle"
  /\ attempt = 0
  /\ pending = None
  /\ outcome = NoOutcome
  /\ runs = 0
  /\ opLog = <<>>
  /\ sleeps = 0
  /\ startCb = NewBreaker
  /\ consec = 0
  /\ hoSucc = 0
  /\ rejects = 0
  /\ IdleDelay
  /\ IdlePipeline
  /\ IdleCache
  /\ IdleOrch
  /\ IdleTwin
  /\ IdleThreads
  /\ IdleProc

\* --------------------------------------------------------------- actions
\* position of the first statement of the function with_retry wraps
FuncEntry == IF cfg.composed THEN "call" ELSE "invoke"

\* The caller calls the decorated function: with_retry.wrapper starts its
\* loop with attempt = 0.
StartCall ==
  /\ pc \in {"idle", "done"}
  /\ runs < MaxRuns
  /\ runs' = runs + 1
  /\ pc' = FuncEntry
  /\ attempt' = 0
  /\ pending' = None
  /\ outcome' = NoOutcome
  /\ opLog' = <<>>
  /\ sleeps' = 0
  /\ startCb' = cb
  /\ UNCHANGED <<cfg, cb, now, consec, hoSucc, rejects>>
  /\ UNCHANGED nonRetryVars

\* CircuitBreaker.call up to the try block: count the call, and when OPEN
\* either move to HALF_OPEN or fail fast.
BreakerCall ==
  /\ pc = "call"
  /\ LET b1 == [cb EXCEPT !.total_calls = @ + 1] IN
     IF b1.state = OPEN
       THEN IF ShouldAttemptReset(b1, now, cfg.recovery_timeout)
         THEN /\ cb' = [b1 EXCEPT !.state = HALF_OPEN, !.half_open_calls = 0]
              /\ hoSucc' = 0
              /\ pc' = "invoke"
              /\ UNCHANGED <<pending, rejects>>
         ELSE /\ cb' = b1
              /\ pending' = "CircuitBreakerOpenError"
              /\ rejects' = rejects + 1
              /\ pc' = "handle"
              /\ UNCHANGED hoSucc
       ELSE /\ cb' = b1
            /\ pc' = "invoke"
            /\ UNCHANGED <<pending, hoSucc, rejects>>
  /\ UNCHANGED <<cfg, now, attempt, outcome, runs, opLog, sleeps, startCb, consec>>
  /\ UNCHANGED nonRetryVars

\* The raw operation runs and returns or raises r; in the composed call the
\* breaker then records success or failure and passes r on.
Invoke ==
  /\ pc = "invoke"
  /\ \E r \in OpErrors \cup {OK} :
       /\ opLog' = Append(opLog, r)
       /\ pending' = r
       /\ IF cfg.composed
            THEN /\ cb' = AfterInvoke(cb, r, now, cfg)
                 /\ consec' = IF r = OK THEN 0
                              ELSE IF Matches(r, {cfg.expected_exception})
                                THEN consec + 1 ELSE consec
                 /\ hoSucc' = IF r = OK /\ cb.state = HALF_OPEN
                                THEN hoSucc + 1 ELSE hoSucc
            ELSE UNCHANGED <<cb, consec, hoSucc>>
  /\ pc' = "handle"
  /\ UNCHANGED <<cfg, now, attempt, outcome, runs, sleeps, startCb, rejects>>
  /\ UNCHANGED nonRetryVars

\* with_retry.wrapper: the result is returned, or the exception is matched
\* against the except clauses; a retry sleeps and starts the next iteration.
Finish(o) ==
  /\ outcome' = o
  /\ pc' = "done"
  /\ UNCHANGED <<now, attempt, sleeps>>

SleepAndRetry ==
  \E jitter \in JitterRange(cfg.base_delay * Pow2(attempt), cfg.jitter_factor) :
    LET delay == CalculateDelay(attempt, cfg.base_delay, cfg.max_delay,
                                cfg.strategy, jitter) IN
    /\ now + delay <= MaxTime
    /\ now' = now + delay
    /\ sleeps' = sleeps + 1
    /\ attempt' = attempt + 1
    /\ IF LoopContinues(attempt + 1, cfg.max_attempts)
         THEN pc' = FuncEntry /\ UNCHANGED outcome
         ELSE pc' = "done" /\ outcome' = Raise("RuntimeError")

RetryOrGiveUp ==
  IF LastAttempt(attempt, cfg.max_attempts)
    THEN Finish(RaiseExhausted(pending))
    ELSE SleepAndRetry

RetryHandle ==
  /\ pc = "handle"
  /\ IF pending = OK THEN Finish(Return)
     ELSE CASE Classify(pending) = "non_retryable" -> Finish(Raise(pending))
            [] Classify(pending) = "retryable" -> RetryOrGiveUp
            [] Classify(pending) = "unknown" ->
                 IF UnknownShouldRetry(pending)
                   THEN RetryOrGiveUp
                   ELSE Finish(Raise(pending))
            [] OTHER -> Finish(Raise(pending))
  /\ UNCHANGED <<cfg, cb, pending, runs, opLog, startCb, consec, hoSucc, rejects>>
  /\ UNCHANGED nonRetryVars

\* Time passes.
Tick ==
  /\ now < MaxTime
  /\ now' = now + 1
  /\ UNCHANGED <<cfg, cb, pc, attempt, pending, outcome, runs, opLog, sleeps,
                 startCb, consec, hoSucc, rejects>>
  /\ UNCHANGED nonRetryVars

Next == StartCall \/ BreakerCall \/ Invoke \/ RetryHandle \/ Tick

Spec == Init /\ [][Next]_vars

\* ------------------------------------------- the delay computation alone
BaseDelays == {0, 1, 5, 10}
MaxDelays == {0, 7, 30, 100}
JitterFactors == {0, 10, 50, 100}

DelayInputs ==
  [ attempt       : 0..MaxAttemptIndex,
    base_delay    : BaseDelays,
    max_delay     : MaxDelays,
    strategy      : RetryStrategy,
    jitter_factor : JitterFactors ]

\* the retry wrapper and the breaker at rest
IdleRetry ==
  /\ cfg = [ composed |-> FALSE, max_attempts |-> 1, base_delay |-> 1,
             max_delay |-> 2, strategy |-> FIXED_INTERVAL, jitter_factor |-> 100,
             failure_threshold |-> 1, recovery_timeout |-> 2,
             expected_exception |-> "Exception", half_open_max_calls |-> 1 ]
  /\ cb = NewBreaker
  /\ now = 0
  /\ pc = "idle"
  /\ attempt = 0
  /\ pending = None
  /\ outcome = NoOutcome
  /\ runs = 0
  /\ opLog = <<>>
  /\ sleeps = 0
  /\ startCb = NewBreaker
  /\ consec = 0
  /\ hoSucc = 0
  /\ rejects = 0

InitDelay ==
  /\ IdleRetry
  /\ dIn \in DelayInputs
  /\ dOut = NoDelay
  /\ IdlePipeline
  /\ IdleCache
  /\ IdleOrch
  /\ IdleTwin
  /\ IdleThreads
  /\ IdleProc

\* one call of _calculate_delay: random.random() draws the jitter term
ComputeDelay ==
  /\ ~dOut.done
  /\ \E jitter \in JitterRange(dIn.base_delay * Pow2(dIn.attempt), dIn.jitter_factor) :
       dOut' = [ done   |-> TRUE,
                 delay  |-> CalculateDelay(dIn.attempt, dIn.base_delay, dIn.max_delay,
                                           dIn.strategy, jitter),
                 jitter |-> jitter ]
  /\ UNCHANGED <<nonDelayVars, dIn>>

NextDelay == ComputeDelay

SpecDelay == InitDelay /\ [][NextDelay]_vars

\* ----------------------------------------------- the pipeline: process()
InitPipeline ==
  /\ IdleRetry
  /\ IdleDelay
  /\ pin \in PipelineInputs
  /\ ppc = "entry"
  /\ ctx = NoContext
  /\ pidx = 0
  /\ perr = NoError
  /\ pout = NoResult
  /\ pStarted = <<>>
  /\ pFinalized = 0
  /\ pLate = 0
  /\ IdleCache
  /\ IdleOrch
  /\ IdleTwin
  /\ IdleThreads
  /\ IdleProc

\* a stage event after finalize counts as late
Late(c) == IF c.end_time # NoTime THEN 1 ELSE 0

\* process(): if not self.validate_input(input_data)
ValidateInput ==
  /\ ppc = "entry"
  /\ IF validate_input(pin.payload)
       THEN /\ ppc' = "validated"
            /\ pout' = pout
       ELSE /\ ppc' = "done"
            /\ pout' = [ NoResult EXCEPT !.status = "raised", !.error = ValidationFailure ]
  /\ UNCHANGED <<pin, ctx, pidx, perr, pStarted, pFinalized, pLate>>
  /\ UNCHANGED nonPipeVars

\* process(): the context is created and the stage sequence is entered
CreateContext ==
  /\ ppc = "validated"
  /\ ctx' = PipelineExecutionContext(now)
  /\ pidx' = 1
  /\ ppc' = "start"
  /\ UNCHANGED <<pin, perr, pout, pStarted, pFinalized, pLate>>
  /\ UNCHANGED nonPipeVars

\* _execute_X_stage: context.start_stage(X), before the try
StartStage ==
  /\ ppc = "start"
  /\ LET stage == StagePlan(pin)[pidx]
     IN /\ ctx' = start_stage(ctx, stage)
        /\ pStarted' = Append(pStarted, stage)
  /\ pLate' = pLate + Late(ctx)
  /\ ppc' = "work"
  /\ UNCHANGED <<pin, pidx, perr, pout, pFinalized>>
  /\ UNCHANGED nonPipeVars

\* _execute_X_stage: the work returns, complete_stage, return
StageSucceeds ==
  /\ ppc = "work"
  /\ LET stage == StagePlan(pin)[pidx]
         nxt == Advance(pidx, FALSE, StagePlan(pin))
     IN /\ ctx' = complete_stage(ctx, stage, StageResult(stage, pin))
        /\ ppc' = nxt.ppc
        /\ pidx' = nxt.pidx
  /\ pLate' = pLate + Late(ctx)
  /\ UNCHANGED <<pin, perr, pout, pStarted, pFinalized>>
  /\ UNCHANGED nonPipeVars

\* _execute_X_stage: the work raises e, fail_stage, raise PipelineError from e;
\* _execute_pipeline_stages logs and re-raises
StageFails ==
  /\ ppc = "work"
  /\ \E e \in StageErrors :
       LET stage == StagePlan(pin)[pidx]
           nxt == Advance(pidx, TRUE, StagePlan(pin))
       IN /\ ctx' = fail_stage(ctx, stage, <<e>>, now)
          /\ perr' = RaiseFrom("PipelineError", <<stage, "stage failed">>, <<e>>)
          /\ ppc' = nxt.ppc
          /\ pidx' = nxt.pidx
  /\ pLate' = pLate + Late(ctx)
  /\ UNCHANGED <<pin, pout, pStarted, pFinalized>>
  /\ UNCHANGED nonPipeVars

\* process(): finalize, compile final_results, return
FinalizeAndReturn ==
  /\ ppc = "stages_done"
  /\ ctx' = finalize(ctx, now)
  /\ pFinalized' = pFinalized + 1
  /\ pout' = FinalResults(ctx')
  /\ ppc' = "done"
  /\ UNCHANGED <<pin, pidx, perr, pStarted, pLate>>
  /\ UNCHANGED nonPipeVars

\* process(): except Exception as e: finalize, raise PipelineError from e
FinalizeAndRaise ==
  /\ ppc = "abort"
  /\ ctx' = ExceptFinalize(ctx, now)
  /\ pFinalized' = IF ctx'.end_time = NoTime THEN pFinalized ELSE pFinalized + 1
  /\ pout' = ProcessFailure(ctx', perr)
  /\ ppc' = "done"
  /\ UNCHANGED <<pin, pidx, perr, pStarted, pLate>>
  /\ UNCHANGED nonPipeVars

NextPipeline ==
  \/ ValidateInput
  \/ CreateContext
  \/ StartStage
  \/ StageSucceeds
  \/ StageFails
  \/ FinalizeAndReturn
  \/ FinalizeAndRaise
  \/ Tick

SpecPipeline == InitPipeline /\ [][NextPipeline]_vars

\* ------------------------------------------------ the cache: operations
InitCache ==
  /\ IdleRetry
  /\ IdleDelay
  /\ IdlePipeline
  /\ IdleOrch
  /\ IdleTwin
  /\ IdleThreads
  /\ IdleProc
  /\ ccfg \in CacheConfigs
  /\ memory_cache = EmptyMemory
  /\ local_files = [ p \in CachePaths |-> NoFile ]
  /\ s3_objects = [ k \in CacheKeys |-> NoObject ]
  /\ cres = NoOp
  /\ cops = 0
  /\ sets = NoSets
  /\ setTime = [ k \in CacheKeys |-> NoTime ]
  /\ cleared = {}

\* the result of a get, with the tiers it probed
GetResult(key, value, probed, s3_raised) ==
  [ op |-> "get", key |-> key, value |-> value, probed |-> probed,
    s3_raised |-> s3_raised ]

\* the result of another operation
OpResult(op, key, value, s3_raised) ==
  [ op |-> op, key |-> key, value |-> value, probed |-> <<>>, s3_raised |-> s3_raised ]

\* CacheManager.get
Get(key) ==
  /\ cops < MaxCacheOps
  /\ cops' = cops + 1
  /\ \E s3ok \in BOOLEAN, written \in WriteOutcomes :
       LET loc == GetFromLocal(local_files, key, now, ccfg.cache_hours)
           remote == GetFromS3(s3_objects, key, now, ccfg.cache_hours, s3ok)
       IN IF ~ccfg.cache_enabled
            THEN /\ cres' = GetResult(key, Absent, <<>>, FALSE)
                 /\ UNCHANGED <<memory_cache, local_files>>
          ELSE IF memory_cache[key] # Absent
            THEN /\ cres' = GetResult(key, memory_cache[key], <<"memory">>, FALSE)
                 /\ UNCHANGED <<memory_cache, local_files>>
          ELSE IF loc.data # Absent
            THEN /\ memory_cache' = MemoryPut(memory_cache, key, loc.data)
                 /\ local_files' = loc.files
                 /\ cres' = GetResult(key, loc.data, <<"memory", "local">>, FALSE)
          ELSE IF ~ccfg.s3_client
            THEN /\ local_files' = loc.files
                 /\ cres' = GetResult(key, Absent, <<"memory", "local">>, FALSE)
                 /\ UNCHANGED memory_cache
          ELSE IF remote = Raised
            \* an exception that left _get_from_s3 would leave get
            THEN /\ local_files' = loc.files
                 /\ cres' = GetResult(key, Raised, <<"memory", "local", "s3">>, TRUE)
                 /\ UNCHANGED memory_cache
          ELSE IF remote # Absent
            THEN /\ local_files' = SetToLocal(loc.files, key, remote, now, written)
                 /\ memory_cache' = MemoryPut(memory_cache, key, remote)
                 /\ cres' = GetResult(key, remote, <<"memory", "local", "s3">>, FALSE)
          ELSE /\ local_files' = loc.files
               /\ cres' = GetResult(key, Absent, <<"memory", "local", "s3">>, ~s3ok)
               /\ UNCHANGED memory_cache
  /\ UNCHANGED <<ccfg, s3_objects, sets, setTime, cleared>>
  /\ UNCHANGED nonCacheVars

\* CacheManager.set; it returns the outcome of the local write
Set(key, data) ==
  /\ cops < MaxCacheOps
  /\ cops' = cops + 1
  /\ IF ~ccfg.cache_enabled
       THEN /\ cres' = OpResult("set", key, "False", FALSE)
            /\ UNCHANGED <<memory_cache, local_files, s3_objects, sets, setTime, cleared>>
       ELSE \E written \in WriteOutcomes, s3ok \in BOOLEAN :
              /\ memory_cache' = MemoryPut(memory_cache, key, data)
              /\ local_files' = SetToLocal(local_files, key, data, now, written)
              /\ s3_objects' = IF ccfg.s3_client
                                 THEN SetToS3(s3_objects, key, data, now, s3ok)
                                 ELSE s3_objects
              /\ cres' = OpResult("set", key, IF written = "ok" THEN "True" ELSE "False",
                                  ccfg.s3_client /\ ~s3ok)
              /\ sets' = [ sets EXCEPT ![key] = Append(@, data) ]
              /\ setTime' = [ setTime EXCEPT ![key] = now ]
              /\ cleared' = cleared \ {key}
  /\ UNCHANGED ccfg
  /\ UNCHANGED nonCacheVars

\* files left after unlinking the files of `paths`
Unlink(files, paths) ==
  [ p \in CachePaths |-> IF p \in paths THEN NoFile ELSE files[p] ]

\* CacheManager.clear_all: memory and the local files, not the bucket
ClearAllEffect ==
  /\ memory_cache' = EmptyMemory
  /\ local_files' = Unlink(local_files, CachePaths)
  /\ sets' = NoSets
  /\ cleared' = CacheKeys
  /\ UNCHANGED s3_objects

\* CacheManager.clear(key); `if key:` sends the empty key to clear_all
Clear(key) ==
  /\ cops < MaxCacheOps
  /\ cops' = cops + 1
  /\ IF key # ""
       THEN \E s3ok \in BOOLEAN :
              /\ memory_cache' = [ memory_cache EXCEPT ![key] = Absent ]
              /\ local_files' = Unlink(local_files, {SafeKey(key)})
              /\ s3_objects' = IF ccfg.s3_client /\ s3ok
                                 THEN [ s3_objects EXCEPT ![key] = NoObject ]
                                 ELSE s3_objects
              /\ cres' = OpResult("clear", key, Absent, ccfg.s3_client /\ ~s3ok)
              /\ sets' = [ sets EXCEPT ![key] = <<>> ]
              /\ cleared' = cleared \cup {key}
       ELSE /\ ClearAllEffect
            /\ cres' = OpResult("clear", key, Absent, FALSE)
  /\ UNCHANGED <<ccfg, setTime>>
  /\ UNCHANGED nonCacheVars

\* CacheManager.clear() and CacheManager.clear_all()
ClearAll ==
  /\ cops < MaxCacheOps
  /\ cops' = cops + 1
  /\ cres' = OpResult("clear_all", "", Absent, FALSE)
  /\ ClearAllEffect
  /\ UNCHANGED <<ccfg, setTime>>
  /\ UNCHANGED nonCacheVars

\* a new CacheManager over the same directory and bucket
Restart ==
  /\ memory_cache # EmptyMemory
  /\ memory_cache' = EmptyMemory
  /\ sets' = NoSets
  /\ cres' = NoOp
  /\ UNCHANGED <<ccfg, local_files, s3_objects, cops, setTime, cleared>>
  /\ UNCHANGED nonCacheVars

NextCache ==
  \/ \E key \in CacheKeys : Get(key)
  \/ \E key \in CacheKeys, data \in CacheValues : Set(key, data)
  \/ \E key \in ClearKeys : Clear(key)
  \/ ClearAll
  \/ Restart
  \/ Tick

SpecCache == InitCache /\ [][NextCache]_vars

\* ------------------------------------- the orchestrator: executions
InitOrchestrator ==
  /\ IdleRetry
  /\ IdleDelay
  /\ IdlePipeline
  /\ IdleCache
  /\ IdleOrch
  /\ IdleTwin
  /\ IdleThreads
  /\ IdleProc

\* execute_pipeline up to the point where process() has validated its input:
\* a rejected input is raised to the caller, an accepted one gets its context
\* and, with it, its pipeline_id
ExecuteBegin ==
  /\ opc = "idle"
  /\ oSucc + oRaised < MaxExecutions
  /\ \/ /\ opc' = "process"
        /\ oid' = PipelineExecutionContext(now).pipeline_id
        /\ UNCHANGED <<orch, oSucc, oRaised>>
     \/ /\ oRaised' = oRaised + 1
        /\ UNCHANGED <<orch, opc, oid, oSucc>>
  /\ UNCHANGED <<oStatus>>
  /\ UNCHANGED nonOrchVars

\* process() returns its bundle: the completion is tracked under the
\* bundle's pipeline_id
ExecuteReturns ==
  /\ opc = "process"
  /\ orch' = TrackCompletion(orch, PipelineResults(oid, oSucc + oRaised + 1))
  /\ oSucc' = oSucc + 1
  /\ opc' = "idle"
  /\ oid' = NoTime
  /\ UNCHANGED <<oRaised, oStatus>>
  /\ UNCHANGED nonOrchVars

\* process() raises: the except clause logs and re-raises
ExecuteRaises ==
  /\ opc = "process"
  /\ oRaised' = oRaised + 1
  /\ opc' = "idle"
  /\ oid' = NoTime
  /\ UNCHANGED <<orch, oSucc, oStatus>>
  /\ UNCHANGED nonOrchVars

GetPipelineStatus ==
  /\ opc = "idle"
  /\ oStatus' = [ taken |-> TRUE, status |-> get_pipeline_status(orch),
                  returned |-> oSucc, raised |-> oRaised ]
  /\ UNCHANGED <<orch, opc, oid, oSucc, oRaised>>
  /\ UNCHANGED nonOrchVars

NextOrchestrator ==
  \/ ExecuteBegin
  \/ ExecuteReturns
  \/ ExecuteRaises
  \/ GetPipelineStatus
  \/ Tick

SpecOrchestrator == InitOrchestrator /\ [][NextOrchestrator]_vars

\* ------------------------------------------ two breakers: their calls
InitTwin ==
  /\ IdleRetry
  /\ IdleDelay
  /\ IdlePipeline
  /\ IdleCache
  /\ IdleOrch
  /\ IdleThreads
  /\ IdleProc
  /\ \E c \in BreakerConfigs :
       twin = [ cfg |-> c, a |-> NewBreaker, b |-> NewBreaker, calls |-> 0 ]

\* one call on the first breaker
CallA(r) ==
  /\ twin.calls < MaxTwinCalls
  /\ twin' = [ twin EXCEPT !.a = Call(@, r, now, twin.cfg).cb, !.calls = @ + 1 ]
  /\ UNCHANGED nonTwinVars

\* one call on the second breaker
CallB(r) ==
  /\ twin.calls < MaxTwinCalls
  /\ twin' = [ twin EXCEPT !.b = Call(@, r, now, twin.cfg).cb, !.calls = @ + 1 ]
  /\ UNCHANGED nonTwinVars

NextTwin ==
  \/ \E r \in CallOutcomes : CallA(r)
  \/ \E r \in CallOutcomes : CallB(r)
  \/ Tick

SpecTwin == InitTwin /\ [][NextTwin]_vars

\* ------------------------------------- one retried call, run to its end
\* the configurations whose sleeps all fit in the clock's range
LiveConfigs ==
  { c \in Configs : (c.max_attempts - 1) * c.max_delay <= MaxTime }

\* the wrapper is about to be called once
InitLive ==
  /\ cfg \in LiveConfigs
  /\ cb = NewBreaker
  /\ now = 0
  /\ pc = "idle"
  /\ attempt = 0
  /\ pending = None
  /\ outcome = NoOutcome
  /\ runs = MaxRuns - 1
  /\ opLog = <<>>
  /\ sleeps = 0
  /\ startCb = NewBreaker
  /\ consec = 0
  /\ hoSucc = 0
  /\ rejects = 0
  /\ IdleDelay
  /\ IdlePipeline
  /\ IdleCache
  /\ IdleOrch
  /\ IdleTwin
  /\ IdleThreads
  /\ IdleProc

\* the clock moves only while the wrapper sleeps
NextLive == StartCall \/ BreakerCall \/ Invoke \/ RetryHandle

\* the thread that runs the wrapper keeps running, and the operation returns
\* or raises each time it is invoked
SpecLive ==
  InitLive /\ [][NextLive]_vars /\ WF_vars(BreakerCall \/ Invoke \/ RetryHandle)

\* ------------------------------------- threads on a breaker: call()
\* The breaker holds no lock. `self.x += 1` reads x and writes x + 1, and
\* another thread can run between the two.
InitThreads ==
  /\ IdleRetry
  /\ IdleDelay
  /\ IdlePipeline
  /\ IdleCache
  /\ IdleOrch
  /\ IdleTwin
  /\ IdleProc
  /\ tcfg \in BreakerConfigs
  /\ tcb = NewBreaker
  /\ th = [ t \in Threads |-> IdleThread ]
  /\ tlog = NoThreadLog

\* call() is entered; `self.total_calls += 1` reads total_calls
BeginCall(t) ==
  /\ th[t].pc = "idle"
  /\ tlog.calls < MaxThreadCalls
  /\ th' = [ th EXCEPT ![t] = [ pc |-> "count", reg |-> tcb.total_calls ] ]
  /\ tlog' = [ tlog EXCEPT !.calls = @ + 1 ]
  /\ UNCHANGED <<tcfg, tcb>>
  /\ UNCHANGED nonThreadVars

\* `self.total_calls += 1` writes total_calls
CountCall(t) ==
  /\ th[t].pc = "count"
  /\ tcb' = [ tcb EXCEPT !.total_calls = th[t].reg + 1 ]
  /\ th' = [ th EXCEPT ![t] = [ pc |-> "gate", reg |-> 0 ] ]
  /\ UNCHANGED <<tcfg, tlog>>
  /\ UNCHANGED nonThreadVars

\* `if self.state == CircuitState.OPEN`: move to HALF_OPEN or reject
PassGate(t) ==
  /\ th[t].pc = "gate"
  /\ IF tcb.state = OPEN
       THEN IF ShouldAttemptReset(tcb, now, tcfg.recovery_timeout)
         THEN /\ tcb' = [ tcb EXCEPT !.state = HALF_OPEN, !.half_open_calls = 0 ]
              /\ th' = [ th EXCEPT ![t].pc = "func" ]
              /\ UNCHANGED tlog
         ELSE /\ th' = [ th EXCEPT ![t].pc = "idle" ]
              /\ tlog' = [ tlog EXCEPT !.rejected = @ + 1 ]
              /\ UNCHANGED tcb
       ELSE /\ th' = [ th EXCEPT ![t].pc = "func" ]
            /\ UNCHANGED <<tcb, tlog>>
  /\ UNCHANGED tcfg
  /\ UNCHANGED nonThreadVars

\* the protected function returns, or raises the expected exception; the
\* first += of _on_success or _on_failure reads its counter
RunFunc(t) ==
  /\ th[t].pc = "func"
  /\ \/ th' = [ th EXCEPT ![t] = [ pc |-> "on_success", reg |-> tcb.successful_calls ] ]
     \/ th' = [ th EXCEPT ![t] = [ pc |-> "on_failure", reg |-> tcb.failed_calls ] ]
  /\ UNCHANGED <<tcfg, tcb, tlog>>
  /\ UNCHANGED nonThreadVars

\* _on_success from the write of successful_calls on
StoreSuccess(t) ==
  /\ th[t].pc = "on_success"
  /\ tcb' = OnSuccess([ tcb EXCEPT !.successful_calls = th[t].reg ],
                      tcfg.half_open_max_calls)
  /\ th' = [ th EXCEPT ![t] = IdleThread ]
  /\ tlog' = [ tlog EXCEPT !.streak = 0 ]
  /\ UNCHANGED tcfg
  /\ UNCHANGED nonThreadVars

\* `self.failed_calls += 1` writes failed_calls, `self.failure_count += 1`
\* reads failure_count
StoreFailed(t) ==
  /\ th[t].pc = "on_failure"
  /\ tcb' = [ tcb EXCEPT !.failed_calls = th[t].reg + 1 ]
  /\ th' = [ th EXCEPT ![t] = [ pc |-> "on_failure_count", reg |-> tcb.failure_count ] ]
  /\ UNCHANGED <<tcfg, tlog>>
  /\ UNCHANGED nonThreadVars

\* _on_failure from the write of failure_count on
StoreFailure(t) ==
  /\ th[t].pc = "on_failure_count"
  /\ tcb' = [ OnFailure([ tcb EXCEPT !.failure_count = th[t].reg ], now,
                        tcfg.failure_threshold)
                EXCEPT !.failed_calls = tcb.failed_calls ]
  /\ th' = [ th EXCEPT ![t] = IdleThread ]
  /\ tlog' = [ tlog EXCEPT !.streak = @ + 1 ]
  /\ UNCHANGED tcfg
  /\ UNCHANGED nonThreadVars

NextThreads ==
  \/ \E t \in Threads : BeginCall(t)
  \/ \E t \in Threads : CountCall(t)
  \/ \E t \in Threads : PassGate(t)
  \/ \E t \in Threads : RunFunc(t)
  \/ \E t \in Threads : StoreSuccess(t)
  \/ \E t \in Threads : StoreFailed(t)
  \/ \E t \in Threads : StoreFailure(t)
  \/ Tick

SpecThreads == InitThreads /\ [][NextThreads]_vars

\* --------------------------------- the processor: process_with_cache
InitProcessor ==
  /\ IdleRetry
  /\ IdleDelay
  /\ IdlePipeline
  /\ IdleCache
  /\ IdleOrch
  /\ IdleTwin
  /\ IdleThreads
  /\ processing_stats = NewStats
  /\ cache_manager \in [ present : BOOLEAN, cached : {{}} ]
  /\ pwc = NoCall

\* the call ends in the except clause: failed_operations is counted and
\* ProcessingError is raised
CallFails(input, stats) ==
  /\ processing_stats' = [ stats EXCEPT !.failed_operations = @ + 1 ]
  /\ pwc' = [ input |-> input, ended |-> "raised" ]
  /\ UNCHANGED cache_manager

\* process_with_cache(input_data): the call is counted; an input that fails
\* validation raises; a cached result is returned at once; otherwise
\* process() runs, its result is cached and returned, or its exception raised
ProcessWithCache(input) ==
  /\ processing_stats.total_operations < MaxOperations
  /\ LET counted == [ processing_stats EXCEPT !.total_operations = @ + 1 ] IN
     IF ~ValidInput(input)
       THEN CallFails(input, counted)
       ELSE \/ /\ cache_manager.present
               /\ input \in cache_manager.cached
               /\ processing_stats' = get_cached_result(counted, cache_manager, TRUE)
               /\ pwc' = [ input |-> input, ended |-> "cached" ]
               /\ UNCHANGED cache_manager
            \/ \E stored \in BOOLEAN :
                 /\ processing_stats' =
                      [ get_cached_result(counted, cache_manager, FALSE)
                          EXCEPT !.successful_operations = @ + 1 ]
                 /\ cache_manager' = cache_result(cache_manager, input, stored)
                 /\ pwc' = [ input |-> input, ended |-> "processed" ]
            \/ CallFails(input, get_cached_result(counted, cache_manager, FALSE))
  /\ UNCHANGED nonProcVars

NextProcessor == \E input \in ProcInputs : ProcessWithCache(input)

SpecProcessor == InitProcessor /\ [][NextProcessor]_vars

\* ------------------------------------------------------------ properties
CBOE == "CircuitBreakerOpenError"

\* errors the retry wrapper retries, surfaces as non-retryable, or does not
\* know, as the configuration classifies them
RetryableErrs ==
  {e \in OpErrors : Matches(e, retryable_exceptions)
                    /\ ~Matches(e, non_retryable_exceptions)}
NonRetryableErrs == {e \in OpErrors : Matches(e, non_retryable_exceptions)}
UnclassifiedErrs ==
  {e \in OpErrors \cup {CBOE} : ~Matches(e, retryable_exceptions)
                                /\ ~Matches(e, non_retryable_exceptions)}

AllIn(log, S) == \A i \in 1..Len(log) : log[i] \in S
Last(log) == log[Len(log)]
Failures(log) == Cardinality({i \in 1..Len(log) : log[i] # OK})

\* C1: with_retry alone, max_attempts = n >= 1, an operation that raises a
\* retryable error on every invocation: the operation is never invoked more
\* than n times, the call never returns a value, and when the call ends the
\* operation has been invoked exactly n times and the call has raised.
C1_RetryableExhausts ==
  (~cfg.composed /\ pc # "idle" /\ AllIn(opLog, RetryableErrs)) =>
    /\ Len(opLog) <= cfg.max_attempts
    /\ outcome.status # "returned"
    /\ (pc = "done" => Len(opLog) = cfg.max_attempts /\ outcome.status = "raised")

C1_Witness ==
  /\ ~cfg.composed /\ pc = "done" /\ cfg.max_attempts = 3
  /\ Len(opLog) = 3 /\ AllIn(opLog, RetryableErrs)
  /\ outcome.status = "raised" /\ sleeps = 2

\* C2: CircuitBreaker.call on an OPEN breaker: before recovery_timeout has
\* elapsed since the last failure the call raises CircuitBreakerOpenError,
\* does not invoke the operation and leaves the breaker OPEN; from
\* recovery_timeout on, the breaker becomes HALF_OPEN and the same call goes
\* on to invoke the operation.
C2_OpenGate ==
  [][ /\ (cfg.composed /\ pc = "call" /\ pc' # "call" /\ cb.state = OPEN) =>
           IF now - cb.last_failure_time < cfg.recovery_timeout
             THEN /\ pending' = CBOE /\ pc' = "handle"
                  /\ opLog' = opLog /\ cb'.state = OPEN
             ELSE /\ cb'.state = HALF_OPEN /\ pc' = "invoke"
      /\ (pc = "invoke" /\ pc' # "invoke") => Len(opLog') = Len(opLog) + 1
    ]_vars

C2_Witness ==
  /\ cfg.composed /\ rejects > 0
  /\ pc = "handle" /\ cb.state = HALF_OPEN /\ hoSucc = 1 /\ Len(opLog) = 1

\* C3: from CLOSED the breaker opens exactly on the failure that makes
\* failure_threshold failures with no success between them, and records the
\* time of that failure; a success in CLOSED resets failure_count to 0; a
\* CLOSED breaker has seen fewer than failure_threshold consecutive failures.
C3_OpensAtThreshold ==
  /\ [](cfg.composed /\ cb.state = CLOSED =>
          consec < cfg.failure_threshold /\ cb.failure_count = consec)
  /\ [][ (cfg.composed /\ cb.state = CLOSED) =>
           /\ (cb'.state = OPEN) <=>
                (consec' = consec + 1 /\ consec' = cfg.failure_threshold)
           /\ (cb'.state = OPEN) => cb'.last_failure_time = now
           /\ (Len(opLog') > Len(opLog) /\ Last(opLog') = OK) =>
                (cb'.failure_count = 0 /\ cb'.state = CLOSED)
       ]_vars

C3_Witness ==
  /\ cfg.composed /\ cfg.failure_threshold = 3 /\ cb.state = OPEN
  /\ cb.circuit_opens = 1 /\ consec = 3
  /\ cb.successful_calls >= 1 /\ cb.failed_calls >= 4
  /\ cb.last_failure_time > 0

\* C4: a HALF_OPEN breaker closes exactly on the success that makes
\* half_open_max_calls successes since it became HALF_OPEN, with
\* failure_count and half_open_calls at 0; with fewer successes (and no
\* failure) it is still HALF_OPEN.
C4_HalfOpenCloses ==
  /\ [](cfg.composed /\ cb.state = HALF_OPEN =>
          hoSucc < cfg.half_open_max_calls /\ cb.half_open_calls = hoSucc)
  /\ [][ (cfg.composed /\ cb.state = HALF_OPEN) =>
           /\ (cb'.state = CLOSED) <=>
                (hoSucc' = hoSucc + 1 /\ hoSucc' = cfg.half_open_max_calls)
           /\ (cb'.state = CLOSED) =>
                (cb'.failure_count = 0 /\ cb'.half_open_calls = 0)
           /\ (hoSucc' = hoSucc + 1 /\ hoSucc' < cfg.half_open_max_calls) =>
                cb'.state = HALF_OPEN
       ]_vars

C4_Witness ==
  /\ cfg.composed /\ cfg.half_open_max_calls = 2 /\ cb.state = CLOSED
  /\ cb.circuit_opens >= 1 /\ hoSucc = 2
  /\ cb.failure_count = 0 /\ cb.half_open_calls = 0

\* C5: a call that fails (raises the breaker's expected exception) while the
\* breaker is HALF_OPEN puts it back to OPEN, whatever half_open_calls is,
\* and sets last_failure_time to the time of that failure.
C5_HalfOpenFailureReopens ==
  [][ (/\ cfg.composed /\ cb.state = HALF_OPEN
       /\ Len(opLog') > Len(opLog)
       /\ Matches(Last(opLog'), {cfg.expected_exception})) =>
         /\ cb'.state = OPEN
         /\ cb'.last_failure_time = now
         /\ cb'.circuit_opens = cb.circuit_opens + 1
    ]_vars

C5_Witness ==
  /\ cfg.composed /\ cb.state = OPEN /\ cb.circuit_opens = 2
  /\ hoSucc = 1 /\ cb.half_open_calls = 1
  /\ cb.failure_count < cfg.failure_threshold
  /\ cb.last_failure_time = now /\ now >= cfg.recovery_timeout

\* C6: in the composed call every attempt of the retry loop goes through
\* CircuitBreaker.call; an attempt made while the breaker is OPEN and before
\* recovery_timeout has elapsed raises CircuitBreakerOpenError without
\* invoking the operation, and the retry wrapper hands that error to its
\* caller without sleeping and without another attempt.
C6_OpenBreakerStopsRetries ==
  /\ [](cfg.composed /\ pc \in {"handle", "done"} /\ outcome.error # "RuntimeError" =>
          cb.total_calls - startCb.total_calls = attempt + 1)
  /\ [][ cfg.composed =>
           /\ (/\ pc = "call" /\ pc' # "call" /\ cb.state = OPEN
               /\ now - cb.last_failure_time < cfg.recovery_timeout) =>
                 (pending' = CBOE /\ pc' = "handle" /\ opLog' = opLog)
           /\ (pc = "handle" /\ pending = CBOE /\ pc' # "handle") =>
                 /\ pc' = "done" /\ outcome' = Raise(CBOE)
                 /\ sleeps' = sleeps /\ now' = now
                 /\ opLog' = opLog /\ attempt' = attempt
       ]_vars

C6_Witness ==
  /\ cfg.composed /\ pc = "done" /\ outcome = Raise(CBOE)
  /\ startCb.state = CLOSED /\ Len(opLog) >= 1 /\ attempt >= 1
  /\ attempt < cfg.max_attempts - 1
  /\ cb.state = OPEN

\* C7: an error matching the non-retryable set is raised to the caller at
\* once, with no sleep and no further invocation, also when it matches the
\* retryable set too; if the first invocation raises such an error the
\* operation is invoked exactly once.
C7_NonRetryableSurfaces ==
  /\ [](pc = "done" /\ Len(opLog) >= 1 /\ opLog[1] \in NonRetryableErrs =>
          Len(opLog) = 1 /\ sleeps = 0 /\ outcome = Raise(opLog[1]))
  /\ [][ (pc = "handle" /\ pending \in NonRetryableErrs /\ pc' # "handle") =>
           /\ pc' = "done" /\ outcome' = Raise(pending)
           /\ sleeps' = sleeps /\ now' = now /\ opLog' = opLog
       ]_vars

C7_Witness ==
  /\ pc = "done" /\ cfg.max_attempts >= 2
  /\ opLog = <<"AmbiguousError">> /\ outcome = Raise("AmbiguousError")

\* C8 as stated: an operation that always raises an error matching neither
\* set is invoked max_attempts times.
C8_Original ==
  (~cfg.composed /\ pc = "done" /\ AllIn(opLog, UnclassifiedErrs)) =>
    Len(opLog) = cfg.max_attempts

\* C8 amended: an error matching neither the retryable nor the non-retryable
\* set is raised to the caller at once, with no sleep and no further
\* invocation; if the first invocation raises such an error the operation
\* is invoked exactly once.
C8_UnclassifiedSurfaces ==
  /\ [](pc = "done" /\ Len(opLog) >= 1 /\ opLog[1] \in UnclassifiedErrs =>
          Len(opLog) = 1 /\ sleeps = 0 /\ outcome = Raise(opLog[1]))
  /\ [][ (pc = "handle" /\ pending \in UnclassifiedErrs /\ pc' # "handle") =>
           /\ pc' = "done" /\ outcome' = Raise(pending)
           /\ sleeps' = sleeps /\ now' = now /\ opLog' = opLog
       ]_vars

C8_Witness ==
  /\ ~cfg.composed /\ pc = "done" /\ cfg.max_attempts >= 2
  /\ opLog = <<"ValueError">> /\ outcome = Raise("ValueError") /\ sleeps = 0

\* the retry wrapper gave up because all max_attempts attempts raised
\* retryable errors
Exhausted ==
  /\ pc = "done" /\ outcome.status = "raised"
  /\ Len(opLog) = cfg.max_attempts /\ AllIn(opLog, RetryableErrs)

C10_Scenario ==
  /\ cfg.composed /\ pc # "idle"
  /\ startCb.state = CLOSED /\ startCb.failure_count = 0
  /\ \A i \in 1..Len(opLog) :
       opLog[i] \in RetryableErrs \/ (i = Len(opLog) /\ opLog[i] = OK)
  /\ Failures(opLog) < cfg.max_attempts
  /\ Failures(opLog) < cfg.failure_threshold

C10_FailThenSucceed ==
  C10_Scenario =>
    /\ cb.state = CLOSED
    /\ (pc = "done" =>
          /\ Len(opLog) = Failures(opLog) + 1
          /\ Last(opLog) = OK
          /\ outcome = Return
          /\ sleeps = Failures(opLog))

C10_Witness ==
  /\ C10_Scenario /\ pc = "done" /\ cfg.max_attempts = 3
  /\ cfg.expected_exception = "Exception"
  /\ opLog = <<"RetryableError", "RetryableError", OK>>
  /\ outcome = Return /\ cb.state = CLOSED /\ cb.failed_calls = startCb.failed_calls + 2

\* exponential term of the delay, base_delay * 2**attempt
ExpDelay == dIn.base_delay * Pow2(dIn.attempt)

\* C11: for every strategy, attempt index and configuration with
\* non-negative base_delay, max_delay and jitter_factor, the computed delay
\* lies in [0, max_delay]: the jitter is added before the clamp.
C11_DelayClamped ==
  dOut.done => (0 <= dOut.delay /\ dOut.delay <= dIn.max_delay)

C11_Witness ==
  /\ dOut.done /\ dIn.strategy = EXPONENTIAL_BACKOFF_WITH_JITTER
  /\ ExpDelay < dIn.max_delay
  /\ ExpDelay + dOut.jitter > dIn.max_delay
  /\ dOut.delay = dIn.max_delay

\* C12 as stated: with exponential-with-jitter the delay is at least
\* b * 2^a and at most min(m, b * 2^a * (1 + j)).
C12_Original ==
  (dOut.done /\ dIn.strategy = EXPONENTIAL_BACKOFF_WITH_JITTER) =>
    /\ ExpDelay <= dOut.delay
    /\ dOut.delay <= dIn.max_delay
    /\ 100 * dOut.delay <= ExpDelay * (100 + dIn.jitter_factor)

\* C12 amended: with exponential-with-jitter the delay is at least
\* min(m, b * 2^a) and at most min(m, b * 2^a * (1 + j)).
C12_JitterWindow ==
  (dOut.done /\ dIn.strategy = EXPONENTIAL_BACKOFF_WITH_JITTER) =>
    /\ Min(dIn.max_delay, ExpDelay) <= dOut.delay
    /\ dOut.delay <= dIn.max_delay
    /\ 100 * dOut.delay <= ExpDelay * (100 + dIn.jitter_factor)

C12_Witness ==
  /\ dOut.done /\ dIn.strategy = EXPONENTIAL_BACKOFF_WITH_JITTER
  /\ dIn.attempt = 2 /\ dIn.jitter_factor = 50
  /\ dOut.jitter > 0
  /\ dOut.delay = ExpDelay + dOut.jitter
  /\ dOut.delay < dIn.max_delay

\* ------------------------------------------------- claims on the pipeline
Range(seq) == { seq[i] : i \in 1..Len(seq) }
Rank(stage) == CHOOSE i \in 1..6 :
  <<"discovery", "mapping", "transformation", "analysis", "validation", "output">>[i] = stage
Switched(stage) ==
  /\ (stage = "analysis" => pin.enable_statistics)
  /\ (stage = "validation" => pin.enable_validation)
RunFailed == ctx.failed_stages # <<>>

C14_ContextAfterFailure ==
  (RunFailed /\ ppc = "done") =>
    /\ ctx.completed_stages = SubSeq(pStarted, 1, Len(pStarted) - 1)
    /\ ctx.failed_stages = <<Last(pStarted)>>
    /\ Len(ctx.errors) = 1
    /\ ctx.errors[1].stage = Last(pStarted)
    /\ ctx.current_stage = None
    /\ ctx.stage_results =
         { [ stage |-> t, result |-> StageResult(t, pin) ] : t \in Range(ctx.completed_stages) }

C14_Witness ==
  /\ ppc = "done"
  /\ ctx.failed_stages = <<"analysis">>
  /\ ctx.completed_stages = <<"discovery", "mapping", "transformation">>
  /\ ctx.errors[1].error = <<"Test error">>
  /\ Cardinality(ctx.stage_results) = 3

\* C15: a run that got past input validation has called finalize exactly
\* once when it ends, on the return path and on the raise path, and not at
\* all before; no stage is started, completed or failed once end_time is set.
C15_FinalizeOnce ==
  /\ pFinalized <= 1
  /\ pLate = 0
  /\ (ppc # "done" => (pFinalized = 0 /\ ctx.end_time = NoTime))
  /\ ((ppc = "done" /\ ctx.created) => (pFinalized = 1 /\ ctx.end_time # NoTime))

C15_Witness ==
  /\ ppc = "done" /\ pout.status = "raised" /\ ctx.created
  /\ pFinalized = 1
  /\ ctx.end_time > ctx.start_time
  /\ now > ctx.end_time

\* C16: stages are started in the fixed order with none repeated, a stage
\* switched off by enable_statistics or enable_validation is never started,
\* no switched-on stage is passed over, and while a stage is current it is
\* the last one started and every stage started before it has completed.
C16_SequentialOrder ==
  /\ \A i, j \in 1..Len(pStarted) : i < j => Rank(pStarted[i]) < Rank(pStarted[j])
  /\ \A s \in Range(pStarted) : Switched(s)
  /\ \A s \in Range(pStarted) : \A t \in Range(PipelineStage) :
       (Rank(t) < Rank(s) /\ Switched(t)) => t \in Range(pStarted)
  /\ ppc = "start" => (ctx.current_stage = None /\ Range(pStarted) = Range(ctx.completed_stages))
  /\ ctx.current_stage # None =>
       /\ ctx.current_stage = Last(pStarted)
       /\ Range(SubSeq(pStarted, 1, Len(pStarted) - 1)) = Range(ctx.completed_stages)

C16_Witness ==
  /\ ppc = "done" /\ pout.status = "returned"
  /\ ~pin.enable_statistics /\ ~pin.enable_validation
  /\ pStarted = <<"discovery", "mapping", "transformation", "output">>

\* C17: a run in which a stage failed ends by raising a PipelineError whose
\* message names the failed stage and whose cause chain ends in the
\* exception the stage's work raised; a returned bundle means no stage failed.
C17_FailureRaised ==
  /\ (RunFailed /\ ppc = "done") =>
       /\ pout.status = "raised"
       /\ pout.error[1].class = "PipelineError"
       /\ ctx.failed_stages[1] \in Range(pout.error[1].message)
       /\ Last(pout.error) \in StageErrors
       /\ Last(pout.error).message = ctx.errors[1].error
  /\ pout.status = "returned" => (~RunFailed /\ pout.success)

C17_Witness ==
  /\ ppc = "done" /\ pout.status = "raised"
  /\ ctx.failed_stages = <<"discovery">>
  /\ Len(pout.error) = 3
  /\ pout.error[2].class = "PipelineError"
  /\ pout.error[3].class = "ValueError"

\* C18: with a payload that is neither None nor a dict no context is ever
\* created and no stage is started, and the call ends by raising a
\* ProcessingValidationError, which is not a PipelineError.
C18_MalformedPayload ==
  pin.payload = "other" =>
    /\ ~ctx.created
    /\ pStarted = <<>>
    /\ ppc \in {"idle", "entry", "done"}
    /\ ppc = "done" =>
         /\ pout.status = "raised"
         /\ pout.error[1].class = "ProcessingValidationError"
         /\ "PipelineError" \notin ProcessingAncestors(pout.error[1].class)

C18_Witness ==
  /\ pin.payload = "other" /\ ppc = "done"
  /\ pout.status = "raised"
  /\ pout.error[1].class = "ProcessingValidationError"
  /\ ~ctx.created

\* --------------------------------------------------- claims on the cache
\* C19: on an enabled cache, with or without the S3 tier, a get of a key
\* that was set on this instance and not cleared since returns the value of
\* the latest set of that key, never an earlier one.
C19_SetThenGet ==
  (cres.op = "get" /\ sets[cres.key] # <<>>) => cres.value = Last(sets[cres.key])

C19_Witness ==
  /\ cres.op = "get" /\ cres.key = "a/b"
  /\ sets["a/b"] = <<"text", "tuple">>
  /\ cres.value = "tuple"
  /\ ccfg.s3_client

\* C20 as stated: a get of key k made when cache_hours or more have passed
\* since the latest set of k returns absent.
C20_Original ==
  [][ ( /\ cops' = cops + 1
        /\ cres'.op = "get"
        /\ setTime[cres'.key] # NoTime
        /\ now - setTime[cres'.key] >= ccfg.cache_hours )
      => cres'.value = Absent ]_vars

\* the tiers a get can probe under the configuration, fastest first
Tiers == IF ccfg.s3_client THEN <<"memory", "local", "s3">> ELSE <<"memory", "local">>

\* a step that is a get on an enabled cache
IsGetStep == cops' = cops + 1 /\ cres'.op = "get" /\ ccfg.cache_enabled

\* what a get of `key` returns from the given tiers when S3 answers, at time t
Lookup(memory, files, objects, key, t) ==
  IF ~ccfg.cache_enabled THEN Absent
  ELSE IF memory[key] # Absent THEN memory[key]
  ELSE IF GetFromLocal(files, key, t, ccfg.cache_hours).data # Absent
    THEN GetFromLocal(files, key, t, ccfg.cache_hours).data
  ELSE IF ccfg.s3_client THEN GetFromS3(objects, key, t, ccfg.cache_hours, TRUE)
  ELSE Absent

\* C21: a get probes memory, then local, then S3, each only when the tiers
\* before it missed, and all of them when it returns absent; a get that
\* returns a value leaves that value in memory, and one served by S3 also
\* rewrites the local file; a get of the same key right after a get that
\* returned a value probes memory only.
C21_ProbeAndBackfill ==
  [][ IsGetStep =>
        LET k == cres'.key
            p == cres'.probed
        IN /\ p = SubSeq(Tiers, 1, Len(p))
           /\ Len(p) >= 1
           /\ (Len(p) = 1) = (memory_cache[k] # Absent)
           /\ Len(p) = 1 => cres'.value = memory_cache[k]
           /\ Len(p) > 2 => GetFromLocal(local_files, k, now, ccfg.cache_hours).data = Absent
           /\ cres'.value = Absent => p = Tiers
           /\ cres'.value # Absent => memory_cache'[k] = cres'.value
           /\ (cres'.value # Absent /\ Len(p) = 3) =>
                local_files'[SafeKey(k)] \in
                  { [ state |-> "ok", data |-> cres'.value, mtime |-> now ],
                    [ state |-> "corrupt", data |-> Absent, mtime |-> now ] }
           /\ (cres.op = "get" /\ cres.key = k /\ cres.value # Absent) => p = <<"memory">>
    ]_vars

C21_Witness ==
  /\ cres.op = "get" /\ cres.probed = <<"memory">>
  /\ cres.value = "list"
  /\ ccfg.s3_client
  /\ s3_objects[cres.key].present
  /\ local_files[SafeKey(cres.key)].data = "list"

\* C22 as stated: a get of a key that was cleared, by clear(k) or by a clear
\* of everything, and not set since returns absent.
C22_Original ==
  (cres.op = "get" /\ cres.key \in cleared) => cres.value = Absent

\* C23: a get whose S3 lookup raised returns absent, the memory and local
\* tiers having missed, and no exception; a set whose S3 write raised has put
\* the value in memory and has written the local file, and returns True
\* exactly when the local write succeeded.
C23_RemoteFailureContained ==
  /\ cres.value # Raised
  /\ cres.s3_raised =>
       /\ cres.op = "get" =>
            /\ cres.value = Absent
            /\ cres.probed = <<"memory", "local", "s3">>
            /\ memory_cache[cres.key] = Absent
       /\ cres.op = "set" =>
            /\ memory_cache[cres.key] = Last(sets[cres.key])
            /\ cres.value = "True" =>
                 /\ local_files[SafeKey(cres.key)].state = "ok"
                 /\ local_files[SafeKey(cres.key)].data = Last(sets[cres.key])
            /\ cres.value = "False" => local_files[SafeKey(cres.key)].state = "corrupt"

C23_Witness ==
  /\ cres.op = "get" /\ cres.s3_raised
  /\ cres.value = Absent
  /\ s3_objects[cres.key].present
  /\ now - s3_objects[cres.key].last_modified < ccfg.cache_hours

\* C27 as stated: a set or a clear of key k leaves what a get of any other
\* key k2 returns unchanged.
C27_Original ==
  [][ ( /\ cops' = cops + 1
        /\ cres'.op \in {"set", "clear"}
        /\ ccfg.cache_enabled )
      => \A k2 \in CacheKeys \ {cres'.key} :
           Lookup(memory_cache', local_files', s3_objects', k2, now)
             = Lookup(memory_cache, local_files, s3_objects, k2, now) ]_vars

\* ----------------------------------------- claims on the orchestrator
\* C24: after n execute_pipeline calls that returned, completed_pipelines
\* holds n records and get_pipeline_status reports completed_pipelines = n and
\* total_executions = n, whatever the time between the executions
C24_Original ==
  /\ opc = "idle" => Cardinality(orch.completed_pipelines) = oSucc
  /\ oStatus.taken =>
       /\ oStatus.status.completed_pipelines = oStatus.returned
       /\ oStatus.status.total_executions = oStatus.returned

\* ------------------------------------ claims on the breaker's counters
\* what the breaker's decisions may depend on
GateFields(b) ==
  <<b.state, b.failure_count, b.last_failure_time, b.half_open_calls>>

Counters(b) ==
  <<b.total_calls, b.successful_calls, b.failed_calls, b.circuit_opens>>

\* C25: the cumulative counters never gate behaviour. Two breakers with the
\* same configuration that agree on state, failure_count, last_failure_time
\* and half_open_calls make, for every outcome of the protected function, the
\* same pass-through or fail-fast decision on the next call and agree on
\* these four fields after it, whatever their cumulative counters are
C25_CountersNeverGate ==
  GateFields(twin.a) = GateFields(twin.b) =>
    \A r \in CallOutcomes :
      LET ra == Call(twin.a, r, now, twin.cfg)
          rb == Call(twin.b, r, now, twin.cfg) IN
      /\ ra.passed = rb.passed
      /\ GateFields(ra.cb) = GateFields(rb.cb)

\* two open breakers that agree on what gates and differ in their cumulative
\* counters, at a time when the next call is let through
C25_Witness ==
  /\ GateFields(twin.a) = GateFields(twin.b)
  /\ Counters(twin.a)[1] # Counters(twin.b)[1]
  /\ Counters(twin.a)[2] # Counters(twin.b)[2]
  /\ twin.a.state = OPEN
  /\ Admit(twin.a, now, twin.cfg).passed

\* C28: between the calls of a breaker used sequentially, CLOSED implies
\* failure_count < failure_threshold, HALF_OPEN implies half_open_calls <
\* half_open_max_calls and OPEN implies a recorded last_failure_time; and
\* circuit_opens goes up by one with every transition into OPEN and with
\* nothing else
C28_BreakerInvariants ==
  /\ [](pc # "invoke" =>
          /\ cb.state = CLOSED => cb.failure_count < cfg.failure_threshold
          /\ cb.state = HALF_OPEN => cb.half_open_calls < cfg.half_open_max_calls
          /\ cb.state = OPEN => cb.last_failure_time # NoTime)
  /\ [][ cb'.circuit_opens =
           cb.circuit_opens + (IF cb.state # OPEN /\ cb'.state = OPEN THEN 1 ELSE 0)
       ]_vars

\* a breaker between calls that opened, recovered, and opened again
C28_Witness ==
  /\ pc = "done"
  /\ cb.state = OPEN
  /\ cb.circuit_opens = 2
  /\ cb.successful_calls >= 1

\* ------------------------------------------- claims on termination
\* calls the wrapper has made to the function it wraps, in its first run:
\* those that reached the operation and those the breaker rejected
Invocations == Len(opLog) + rejects

\* C29: every call of the retry wrapper terminates. It invokes the function
\* at most max_attempts times, has slept once after each invocation that
\* another one follows and not after the last one, and ends by returning the
\* result or by raising the error of the last invocation, never the
\* fall-through RuntimeError
C29_RetryTerminates ==
  /\ [](/\ Invocations <= cfg.max_attempts
        /\ pc \in {"call", "invoke"} => sleeps = Invocations
        /\ pc \in {"handle", "done"} => sleeps = Invocations - 1
        /\ pc = "done" =>
             /\ pending \in OpErrors \cup {OK, CBOE}
             /\ outcome = IF pending = OK THEN Return ELSE Raise(pending))
  /\ (pc \in {"call", "invoke", "handle"}) ~> (pc = "done")

\* a call that used every attempt, slept between them and raised the last error
C29_Witness ==
  /\ pc = "done"
  /\ cfg.max_attempts >= 2
  /\ Len(opLog) = cfg.max_attempts
  /\ sleeps = cfg.max_attempts - 1
  /\ outcome = Raise(Last(opLog))

\* ------------------------------------- claims on concurrent callers
\* C26: when two threads call one breaker, no counter update is lost: once
\* no call is under way, total_calls is the number of calls made,
\* successful_calls + failed_calls + the rejected calls is total_calls, and
\* the breaker is OPEN if failure_threshold failures were recorded with no
\* success between them
C26_Original ==
  (\A t \in Threads : th[t].pc = "idle") =>
    /\ tcb.total_calls = tlog.calls
    /\ tcb.successful_calls + tcb.failed_calls + tlog.rejected = tcb.total_calls
    /\ tlog.streak >= tcfg.failure_threshold => tcb.state = OPEN

\* ------------------------------------------- claims on the processor
\* C30: after any sequence of process_with_cache calls every finished call
\* has been counted once as a success or as a failure: total_operations =
\* successful_operations + failed_operations, and success_rate + failure_rate
\* = 1 whenever total_operations > 0
C30_Original ==
  LET report == get_processing_stats(processing_stats) IN
  /\ processing_stats.total_operations =
       processing_stats.successful_operations + processing_stats.failed_operations
  /\ report.total_operations > 0 =>
       report.success_rate[1] + report.failure_rate[1] = report.success_rate[2]

====
